---- MODULE Spec2Model ----
(***************************************************************************)
(* Booking notification flow of hotel-booking-telegram:                    *)
(*   lib/telegram  (src/unnamed/part_001): parseChatMap, CHAT_MAP,         *)
(*                  resolveTelegramRoute, telegramSendText                 *)
(*   lib/email     (src/unnamed/part_000): createTransport, sendGuestEmail *)
(*   booking route (src/app/api/booking/route.js): BookingSchema, POST     *)
(*                                                                         *)
(* JavaScript strings are sequences of one-character strings; JavaScript   *)
(* values are records [t, s, n] (type tag, string payload, number payload) *)
(* so that values of different JavaScript types can be compared.           *)
(***************************************************************************)
EXTENDS Integers, Sequences, FiniteSets, TLC

VARIABLES
    env,        \* process.env: the configuration surface
    CHAT_MAP,   \* module-level constant of lib/telegram, built at module load
    stage,      \* "unloaded" before lib/telegram is evaluated, then "loaded"
    lastCode,   \* the propertyCode last passed to resolveTelegramRoute
    route,      \* the NotificationRoute last returned by resolveTelegramRoute
    pc,         \* where the POST handler of the request in hand is suspended
    body,       \* what req.json() yields for the request in hand
    calls,      \* outbound calls issued for the request in hand, in order
    tgResp,     \* what the chat-bot API answered to the fetch of this request
    tgResult,   \* how telegramSendText ended: returned data or threw
    mailResult, \* how transporter.sendMail ended for this request
    responses,  \* the NextResponse objects POST returned for this request
    logged      \* errors written by console.error for this request

cfgVars == <<env, CHAT_MAP, stage>>

reqVars == <<pc, body, calls, tgResp, tgResult, mailResult, responses, logged>>

vars ==
    <<env, CHAT_MAP, stage, lastCode, route, pc, body, calls, tgResp, tgResult,
      mailResult, responses, logged>>

-----------------------------------------------------------------------------
(* JavaScript values *)

Undefined == [t |-> "undefined", s |-> <<>>, n |-> 0]
NaN       == [t |-> "NaN",       s |-> <<>>, n |-> 0]
Str(s)    == [t |-> "string",    s |-> s,    n |-> 0]
Num(n)    == [t |-> "number",    s |-> <<>>, n |-> n]
\* a member inherited from Object.prototype (a function or the prototype object)
Obj(k)    == [t |-> "object",    s |-> k,    n |-> 0]
True      == [t |-> "boolean",   s |-> <<>>, n |-> 1]
False     == [t |-> "boolean",   s |-> <<>>, n |-> 0]
\* a string whose characters no code inspects, held as one token
Text(x)   == [t |-> "string",    s |-> <<x>>, n |-> 0]

\* ToBoolean, as used by ||, ! and the conditional operator
Truthy(v) ==
    CASE v.t = "undefined" -> FALSE
      [] v.t = "NaN"       -> FALSE
      [] v.t = "string"    -> v.s # <<>>
      [] v.t = "number"    -> v.n # 0
      [] v.t = "boolean"   -> v.n = 1
      [] OTHER             -> TRUE

\* a || b
Or(a, b) == IF Truthy(a) THEN a ELSE b

-----------------------------------------------------------------------------
(* String primitives used by lib/telegram *)

Digits == {"0", "1", "2", "3", "4", "5", "6", "7", "8", "9"}

DigitVal(c) ==
    CASE c = "0" -> 0 [] c = "1" -> 1 [] c = "2" -> 2 [] c = "3" -> 3
      [] c = "4" -> 4 [] c = "5" -> 5 [] c = "6" -> 6 [] c = "7" -> 7
      [] c = "8" -> 8 [] c = "9" -> 9

Includes(s, c) == \E i \in 1..Len(s) : s[i] = c

IndexOf(s, c) == CHOOSE i \in 1..Len(s) : s[i] = c /\ \A j \in 1..(i - 1) : s[j] # c

\* String.prototype.split(sep) for a one-character separator
RECURSIVE Split(_, _)
Split(s, sep) ==
    IF ~Includes(s, sep) THEN <<s>>
    ELSE LET i == IndexOf(s, sep)
         IN  <<SubSeq(s, 1, i - 1)>> \o Split(SubSeq(s, i + 1, Len(s)), sep)

\* String.prototype.trim (the only white space of the alphabet is " ")
RECURSIVE TrimStart(_)
TrimStart(s) == IF s # <<>> /\ s[1] = " " THEN TrimStart(Tail(s)) ELSE s

RECURSIVE TrimEnd(_)
TrimEnd(s) ==
    IF s # <<>> /\ s[Len(s)] = " " THEN TrimEnd(SubSeq(s, 1, Len(s) - 1)) ELSE s

Trim(s) == TrimEnd(TrimStart(s))

RECURSIVE DecimalValue(_)
DecimalValue(s) ==
    IF s = <<>> THEN 0
    ELSE 10 * DecimalValue(SubSeq(s, 1, Len(s) - 1)) + DigitVal(s[Len(s)])

IsDecimal(s) == s # <<>> /\ \A i \in 1..Len(s) : s[i] \in Digits

\* Number(string): white space is trimmed, the empty string is 0, an optionally
\* signed decimal integer is its value, anything else is NaN.  (Hexadecimal,
\* exponent and fraction literals are not written by any string of the model.)
StringToNumber(s) ==
    LET t == Trim(s)
    IN  IF t = <<>> THEN Num(0)
        ELSE IF IsDecimal(t) THEN Num(DecimalValue(t))
        ELSE IF t[1] \in {"-", "+"} /\ IsDecimal(Tail(t))
             THEN Num((IF t[1] = "-" THEN -1 ELSE 1) * DecimalValue(Tail(t)))
        ELSE NaN

\* Number(v)
JSNumber(v) ==
    CASE v.t = "undefined" -> NaN
      [] v.t = "string"    -> StringToNumber(v.s)
      [] v.t = "number"    -> v
      [] OTHER             -> NaN

-----------------------------------------------------------------------------
(* Plain objects used as dictionaries: const map = {} *)

PROTO == <<"_", "_", "p", "r", "o", "t", "o", "_", "_">>
VALUEOF == <<"v", "a", "l", "u", "e", "O", "f">>
CONSTRUCTOR == <<"c", "o", "n", "s", "t", "r", "u", "c", "t", "o", "r">>

\* names every object literal inherits from Object.prototype (those of the model)
ObjectPrototypeKeys == {PROTO, VALUEOF, CONSTRUCTOR}

EmptyObject == <<>>

\* map[k] = v on an object literal: "__proto__" is the prototype setter, which
\* ignores a primitive and creates no own property
SetKey(map, k, v) ==
    IF k = PROTO THEN map
    ELSE [x \in (DOMAIN map) \cup {k} |-> IF x = k THEN v ELSE map[x]]

\* map[k] on an object literal: own property, else inherited member, else undefined
GetKey(map, k) ==
    IF k \in DOMAIN map THEN map[k]
    ELSE IF k \in ObjectPrototypeKeys THEN Obj(k)
    ELSE Undefined

-----------------------------------------------------------------------------
(* lib/telegram: parseChatMap, CHAT_MAP *)

\* the body of the for-of loop, from entry i on
RECURSIVE parseChatMapLoop(_, _, _)
parseChatMapLoop(parts, i, map) ==
    IF i > Len(parts) THEN map
    ELSE LET p == Trim(parts[i])
         IN  IF p = <<>> \/ ~Includes(p, ":")
             THEN parseChatMapLoop(parts, i + 1, map)
             ELSE LET sp   == Split(p, ":")
                      code == sp[1]
                      chat == sp[2]
                  IN  parseChatMapLoop(parts, i + 1,
                          SetKey(map, Trim(code), StringToNumber(Trim(chat))))

\* the loop without the test for ":": an entry lacking one becomes a key
RECURSIVE parseChatMapLoop_keepsColonless(_, _, _)
parseChatMapLoop_keepsColonless(parts, i, map) ==
    IF i > Len(parts) THEN map
    ELSE LET p == Trim(parts[i])
         IN  IF p = <<>>
             THEN parseChatMapLoop_keepsColonless(parts, i + 1, map)
             ELSE LET sp   == Split(p, ":")
                      chat == IF Len(sp) > 1 THEN StringToNumber(Trim(sp[2])) ELSE NaN
                  IN  parseChatMapLoop_keepsColonless(parts, i + 1,
                          SetKey(map, Trim(sp[1]), chat))

parseChatMap_keepsColonless(e) ==
    LET raw == Or(e.TELEGRAM_PROPERTY_CHAT_MAP, Str(<<>>))
    IN  parseChatMapLoop_keepsColonless(Split(raw.s, ","), 1, EmptyObject)

parseChatMap(e) ==
    LET raw == Or(e.TELEGRAM_PROPERTY_CHAT_MAP, Str(<<>>))
    IN  parseChatMapLoop(Split(raw.s, ","), 1, EmptyObject)

-----------------------------------------------------------------------------
(* lib/telegram: resolveTelegramRoute *)

ALL == <<"A", "L", "L">>

resolveTelegramRoute_ignoresMap(propertyCode, map, e) ==
    IF propertyCode = ALL
    THEN [botToken |-> e.TELEGRAM_CONSOLIDATED_BOT_TOKEN,
          chatId   |-> JSNumber(e.TELEGRAM_CONSOLIDATED_CHAT_ID)]
    ELSE [botToken |-> e.TELEGRAM_DEFAULT_BOT_TOKEN,
          chatId   |-> JSNumber(Or(e.TELEGRAM_DEFAULT_CHAT_ID, Num(0)))]

resolveTelegramRoute_mapBeforeAll(propertyCode, map, e) ==
    IF propertyCode \in DOMAIN map
    THEN [botToken |-> e.TELEGRAM_DEFAULT_BOT_TOKEN,
          chatId   |-> Or(GetKey(map, propertyCode),
                          JSNumber(Or(e.TELEGRAM_DEFAULT_CHAT_ID, Num(0))))]
    ELSE IF propertyCode = ALL
    THEN [botToken |-> e.TELEGRAM_CONSOLIDATED_BOT_TOKEN,
          chatId   |-> JSNumber(e.TELEGRAM_CONSOLIDATED_CHAT_ID)]
    ELSE [botToken |-> e.TELEGRAM_DEFAULT_BOT_TOKEN,
          chatId   |-> JSNumber(Or(e.TELEGRAM_DEFAULT_CHAT_ID, Num(0)))]

resolveTelegramRoute(propertyCode, map, e) ==
    IF propertyCode = ALL
    THEN [botToken |-> e.TELEGRAM_CONSOLIDATED_BOT_TOKEN,
          chatId   |-> JSNumber(e.TELEGRAM_CONSOLIDATED_CHAT_ID)]
    ELSE [botToken |-> e.TELEGRAM_DEFAULT_BOT_TOKEN,
          chatId   |-> Or(GetKey(map, propertyCode),
                          JSNumber(Or(e.TELEGRAM_DEFAULT_CHAT_ID, Num(0))))]

-----------------------------------------------------------------------------
(* process.env *)

\* an environment in which nothing is set
EmptyEnv ==
    [TELEGRAM_PROPERTY_CHAT_MAP      |-> Undefined,
     TELEGRAM_DEFAULT_BOT_TOKEN      |-> Undefined,
     TELEGRAM_DEFAULT_CHAT_ID        |-> Undefined,
     TELEGRAM_CONSOLIDATED_BOT_TOKEN |-> Undefined,
     TELEGRAM_CONSOLIDATED_CHAT_ID   |-> Undefined,
     SMTP_HOST |-> Undefined, SMTP_PORT |-> Undefined, SMTP_USER |-> Undefined,
     SMTP_PASS |-> Undefined, SMTP_FROM |-> Undefined]

DEFAULT_TOKEN == Text("default-bot-token")
CONSOLIDATED_TOKEN == Text("consolidated-bot-token")

\* values of <<TELEGRAM_DEFAULT_CHAT_ID, TELEGRAM_CONSOLIDATED_CHAT_ID>>: both
\* unset, the default empty, both set
ChatIdPairs ==
    { <<Undefined, Undefined>>,
      <<Str(<<>>), Str(<<"-", "4", "2">>)>>,
      <<Str(<<"9", "9", "9">>), Str(<<"-", "4", "2">>)>> }

\* property codes
A_CODE == <<"A">>
B_CODE == <<"B">>
B2 == <<"B", "2">>
B21 == <<"B", "2", "1">>
XYZ == <<"X", "Y", "Z">>

\* entries of TELEGRAM_PROPERTY_CHAT_MAP, between commas: well formed, padded,
\* with a zero, empty or non-numeric chat id, with a reserved code, and malformed
CfgEntries ==
    { <<"A", ":", "1", "1", "1">>,
      <<" ", "B", ":", "2", "2", "2">>,
      <<" ", "B", "2", "1", " ", ":", " ", "5", "5", "5", " ">>,
      <<"B", "2", "1", ":", "0">>,
      <<"B", "2", "1", ":", "q">>,
      <<"B", "2", "1", ":">>,
      <<"B", "2", "1", ":", "5", ":", "6">>,
      ALL \o <<":", "7">>,
      VALUEOF \o <<":", "9">>,
      PROTO \o <<":", "9">>,
      <<"B", "2", "1">>,
      <<>>,
      <<" ">>,
      <<":", "5">> }

\* Array.prototype.join(",")
RECURSIVE Join(_)
Join(parts) ==
    IF Len(parts) = 0 THEN <<>>
    ELSE IF Len(parts) = 1 THEN parts[1]
    ELSE parts[1] \o <<",">> \o Join(Tail(parts))

\* the number of comma-separated entries of a configured chat map
MaxParts == 2

ChatMapStrings ==
    { Join(es) : es \in UNION { [1..n -> CfgEntries] : n \in 1..MaxParts } }

ConfigEnvs ==
    { [EmptyEnv EXCEPT !.TELEGRAM_PROPERTY_CHAT_MAP      = m,
                       !.TELEGRAM_DEFAULT_BOT_TOKEN      = DEFAULT_TOKEN,
                       !.TELEGRAM_DEFAULT_CHAT_ID        = ids[1],
                       !.TELEGRAM_CONSOLIDATED_BOT_TOKEN = CONSOLIDATED_TOKEN,
                       !.TELEGRAM_CONSOLIDATED_CHAT_ID   = ids[2]]
      : m \in {Undefined} \cup { Str(r) : r \in ChatMapStrings },
        ids \in ChatIdPairs }

\* the arguments resolveTelegramRoute is called with
ResolveCodes == {A_CODE, B_CODE, B21, XYZ, ALL, VALUEOF, CONSTRUCTOR, PROTO, <<>>}

-----------------------------------------------------------------------------
(* State of one request; its values before a request arrives *)

NoRoute == [botToken |-> Undefined, chatId |-> Undefined]

\* an error object, by its message: a fixed text and, for the chat sender's
\* error, the HTTP status and the description interpolated into it
Msg(text, status, desc) == [text |-> text, status |-> status, desc |-> desc]
NoError == Msg("", 0, "")

NoFields ==
    [propertyCode |-> Undefined, roomId |-> Undefined, guestName |-> Undefined,
     phone |-> Undefined, email |-> Undefined, checkIn |-> Undefined,
     checkOut |-> Undefined, note |-> Undefined]

NoBody == [kind |-> "none", f |-> NoFields]
NoResp ==
    [kind |-> "none", status |-> 0, statusText |-> "", json |-> "invalid",
     ok |-> Undefined, description |-> Undefined]
NoResult == [outcome |-> "none", ok |-> Undefined, description |-> Undefined, error |-> NoError]

RequestIdle ==
    /\ pc = "idle"
    /\ body = NoBody
    /\ calls = <<>>
    /\ tgResp = NoResp
    /\ tgResult = NoResult
    /\ mailResult = NoResult
    /\ responses = <<>>
    /\ logged = <<>>

-----------------------------------------------------------------------------
(* Module load and route resolution on their own *)

InitConfig ==
    /\ env \in ConfigEnvs
    /\ CHAT_MAP = EmptyObject
    /\ stage = "unloaded"
    /\ lastCode = <<>>
    /\ route = NoRoute
    /\ RequestIdle

\* const CHAT_MAP = parseChatMap(), evaluated once when lib/telegram is loaded
LoadModule ==
    /\ stage = "unloaded"
    /\ CHAT_MAP' = parseChatMap(env)
    /\ stage' = "loaded"
    /\ UNCHANGED <<env, lastCode, route>>
    /\ UNCHANGED reqVars

\* a caller of the exported resolveTelegramRoute
ResolveRoute ==
    /\ stage = "loaded"
    /\ \E code \in ResolveCodes :
          /\ lastCode' = code
          /\ route' = resolveTelegramRoute(code, CHAT_MAP, env)
    /\ UNCHANGED cfgVars
    /\ UNCHANGED reqVars

NextConfig == LoadModule \/ ResolveRoute

SpecConfig == InitConfig /\ [][NextConfig]_vars

-----------------------------------------------------------------------------
(* booking route: BookingSchema *)

PropertyCodeMin == 3
RoomIdMin == 1
GuestNameMin == 2
PhoneMin == 6
CheckInMin == 8
CheckOutMin == 8

\* z.string().min(n): a string of at least n characters
StringMin(v, n) == v.t = "string" /\ Len(v.s) >= n

Count(s, c) == Cardinality({ i \in 1..Len(s) : s[i] = c })

\* z.string().email(): one "@"; a local part that is not empty, neither starts
\* nor ends with "." and holds no ".."; a domain of at least two non-empty
\* labels whose last has at least two characters
IsEmail(v) ==
    /\ v.t = "string"
    /\ Count(v.s, "@") = 1
    /\ LET at     == IndexOf(v.s, "@")
           local  == SubSeq(v.s, 1, at - 1)
           domain == SubSeq(v.s, at + 1, Len(v.s))
           labels == Split(domain, ".")
       IN  /\ local # <<>>
           /\ local[1] # "."
           /\ local[Len(local)] # "."
           /\ \A i \in 1..(Len(v.s) - 1) : ~(v.s[i] = "." /\ v.s[i + 1] = ".")
           /\ Len(labels) >= 2
           /\ \A i \in 1..Len(labels) : labels[i] # <<>>
           /\ Len(labels[Len(labels)]) >= 2

\* z.string().optional().default("")
NoteOk(v) == v.t \in {"undefined", "string"}

BookingSchemaOk_phoneMin5(b) ==
    /\ b.kind = "object"
    /\ StringMin(b.f.propertyCode, PropertyCodeMin)
    /\ StringMin(b.f.roomId, RoomIdMin)
    /\ StringMin(b.f.guestName, GuestNameMin)
    /\ StringMin(b.f.phone, PhoneMin - 1)
    /\ IsEmail(b.f.email)
    /\ StringMin(b.f.checkIn, CheckInMin)
    /\ StringMin(b.f.checkOut, CheckOutMin)
    /\ NoteOk(b.f.note)

\* whether BookingSchema.parse(body) returns (TRUE) or throws a ZodError
BookingSchemaOk(b) ==
    /\ b.kind = "object"
    /\ StringMin(b.f.propertyCode, PropertyCodeMin)
    /\ StringMin(b.f.roomId, RoomIdMin)
    /\ StringMin(b.f.guestName, GuestNameMin)
    /\ StringMin(b.f.phone, PhoneMin)
    /\ IsEmail(b.f.email)
    /\ StringMin(b.f.checkIn, CheckInMin)
    /\ StringMin(b.f.checkOut, CheckOutMin)
    /\ NoteOk(b.f.note)

\* the value BookingSchema.parse returns: the fields, note defaulted to ""
BookingSchemaData(b) ==
    [b.f EXCEPT !.note = IF b.f.note = Undefined THEN Str(<<>>) ELSE b.f.note]

-----------------------------------------------------------------------------
(* booking route: the message text, one <<label, value>> per line *)

MessageLines(data) ==
    << <<"NEW BOOKING REQUEST", <<>> >>,
       <<"Property", data.propertyCode.s>>,
       <<"Room", data.roomId.s>>,
       <<"Name", data.guestName.s>>,
       <<"Phone", data.phone.s>>,
       <<"Email", data.email.s>>,
       <<"Dates", data.checkIn.s \o <<" -> ">> \o data.checkOut.s>> >>
    \o (IF Truthy(data.note) THEN << <<"Note", data.note.s>> >> ELSE <<>>)

-----------------------------------------------------------------------------
(* lib/telegram: telegramSendText *)

\* an outbound call: the HTTP POST to the bot API, or the mail handed to SMTP
TelegramCall(botToken, chatId, text) ==
    [kind |-> "telegram", botToken |-> botToken, chatId |-> chatId, text |-> text,
     from |-> Undefined, to |-> Undefined]

EmailCall(from, to) ==
    [kind |-> "email", botToken |-> Undefined, chatId |-> Undefined, text |-> <<>>,
     from |-> from, to |-> to]

\* the fetch telegramSendText issues for its argument {botToken, chatId, text}
telegramSendTextFetch(args) == TelegramCall(args.botToken, args.chatId, args.text)

\* resp.ok of the fetch API
HttpOk(r) == r.status >= 200 /\ r.status <= 299

\* await resp.json().catch(() => ({})): the parsed body, {} when it is not JSON
ParsedBody(r) ==
    IF r.json = "invalid"
    THEN [json |-> "object", ok |-> Undefined, description |-> Undefined]
    ELSE [json |-> r.json, ok |-> r.ok, description |-> r.description]

Returned(data) ==
    [outcome |-> "returned", ok |-> data.ok, description |-> data.description,
     error |-> NoError]

Threw(e) == [outcome |-> "threw", ok |-> Undefined, description |-> Undefined, error |-> e]

TelegramFailed(r, data) ==
    LET desc == IF data.json = "null" THEN Undefined ELSE data.description
    IN  Msg("Telegram failed", r.status,
            IF Truthy(desc) THEN desc.s[1] ELSE r.statusText)

\* how telegramSendText ends once its fetch has settled with r
telegramSendTextSettle(r) ==
    IF r.kind = "reject" THEN Threw(Msg("fetch failed", 0, ""))
    ELSE LET data == ParsedBody(r)
         IN  IF ~HttpOk(r) THEN Threw(TelegramFailed(r, data))
             ELSE IF data.json = "null"
                  THEN Threw(Msg("Cannot read properties of null (reading 'ok')", 0, ""))
             ELSE IF data.ok # True THEN Threw(TelegramFailed(r, data))
             ELSE Returned(data)

\* the binding sendTelegramMessage that route.js imports from lib/telegram and
\* calls with (route, msg).  lib/telegram defines the chat sender under the name
\* telegramSendText only; the binding is taken to forward the route and the
\* message to it as {botToken, chatId, text}, which is the handler's contract.
sendTelegramMessage(r, msg) == [botToken |-> r.botToken, chatId |-> r.chatId, text |-> msg]

-----------------------------------------------------------------------------
(* lib/email: createTransport, sendGuestEmail *)

DefaultSmtpPort == 587
ImplicitTlsPort == 465

createTransport_checksHostOnly(e) ==
    LET port == JSNumber(Or(e.SMTP_PORT, Num(DefaultSmtpPort)))
    IN  IF ~Truthy(e.SMTP_HOST)
        THEN [threw |-> TRUE, error |-> Msg("SMTP env missing", 0, ""),
              host |-> Undefined, port |-> NaN, secure |-> FALSE,
              user |-> Undefined, pass |-> Undefined]
        ELSE [threw |-> FALSE, error |-> NoError,
              host |-> e.SMTP_HOST, port |-> port,
              secure |-> (port = Num(ImplicitTlsPort)),
              user |-> e.SMTP_USER, pass |-> e.SMTP_PASS]

createTransport(e) ==
    LET port == JSNumber(Or(e.SMTP_PORT, Num(DefaultSmtpPort)))
    IN  IF ~Truthy(e.SMTP_HOST) \/ ~Truthy(e.SMTP_USER) \/ ~Truthy(e.SMTP_PASS)
        THEN [threw |-> TRUE, error |-> Msg("SMTP env missing", 0, ""),
              host |-> Undefined, port |-> NaN, secure |-> FALSE,
              user |-> Undefined, pass |-> Undefined]
        ELSE [threw |-> FALSE, error |-> NoError,
              host |-> e.SMTP_HOST, port |-> port,
              secure |-> (port = Num(ImplicitTlsPort)),
              user |-> e.SMTP_USER, pass |-> e.SMTP_PASS]

sendGuestEmailMail_toSender(args, e) ==
    EmailCall(Or(e.SMTP_FROM, e.SMTP_USER), Or(e.SMTP_FROM, e.SMTP_USER))

\* the mail sendGuestEmail hands to transporter.sendMail for its argument
sendGuestEmailMail(args, e) == EmailCall(Or(e.SMTP_FROM, e.SMTP_USER), args.to)

-----------------------------------------------------------------------------
(* booking route: the responses of POST *)

SuccessResponse == [status |-> 200, ok |-> TRUE, error |-> NoError]

FailureResponse_status200(e) == [status |-> 200, ok |-> FALSE, error |-> e]

\* NextResponse.json({ ok: false, error: String(e?.message || e) }, { status: 400 })
FailureResponse(e) == [status |-> 400, ok |-> FALSE, error |-> e]

-----------------------------------------------------------------------------
(* Requests, chat-bot answers and SMTP outcomes *)

GoodFields ==
    [propertyCode |-> Str(B21),
     roomId       |-> Str(<<"1", "0", "1">>),
     guestName    |-> Str(<<"J", "a">>),
     phone        |-> Str(<<"5", "5", "5", "1", "2", "3">>),
     email        |-> Str(<<"j", "@", "e", ".", "c", "o">>),
     checkIn      |-> Str(<<"2", "0", "2", "4", "0", "6", "0", "1">>),
     checkOut     |-> Str(<<"2", "0", "2", "4", "0", "6", "0", "5">>),
     note         |-> Undefined]

Fields == DOMAIN GoodFields

\* payloads that satisfy the schema
ValidFields ==
    { [GoodFields EXCEPT !.propertyCode = Str(c), !.note = n]
      : c \in {B21, XYZ, ALL, VALUEOF},
        n \in {Undefined, Str(<<>>), Str(<<"h", "i">>)} }

\* per field: missing, not a string, one character short, wrong format
BadValues(f) ==
    CASE f = "propertyCode" -> {Undefined, Num(5), Str(B2)}
      [] f = "roomId"       -> {Undefined, Num(5), Str(<<>>)}
      [] f = "guestName"    -> {Undefined, Str(<<"J">>)}
      [] f = "phone"        -> {Undefined, Str(<<"5", "5", "5", "1", "2">>)}
      [] f = "email"        -> {Undefined, Str(<<"j", "e", ".", "c", "o">>),
                                Str(<<"j", "@", "e">>), Str(<<"j", "@", "e", ".", "c">>)}
      [] f = "checkIn"      -> {Undefined, Str(<<"2", "0", "2", "4", "0", "6", "1">>)}
      [] f = "checkOut"     -> {Undefined, Str(<<"2", "0", "2", "4", "0", "6", "5">>)}
      [] f = "note"         -> {Num(5)}

\* the number of fields of a payload that break the schema
MaxBadFields == 1

RECURSIVE Perturbed(_)
Perturbed(k) ==
    IF k = 0 THEN ValidFields
    ELSE LET prev == Perturbed(k - 1)
         IN  prev \cup UNION { { [p EXCEPT ![f] = v] : p \in prev, v \in BadValues(f) }
                                : f \in Fields }

Bodies ==
    { [kind |-> "object", f |-> p] : p \in Perturbed(MaxBadFields) }
    \cup { [kind |-> "invalid_json", f |-> NoFields], [kind |-> "non_object", f |-> NoFields] }

TgResponse(status, statusText, json, ok, description) ==
    [kind |-> "response", status |-> status, statusText |-> statusText, json |-> json,
     ok |-> ok, description |-> description]

\* what the bot API may answer, and a fetch that never gets an answer
TgResponses ==
    { TgResponse(200, "OK", "object", True, Undefined),
      TgResponse(200, "OK", "object", False, Text("chat not found")),
      TgResponse(200, "OK", "object", Text("true"), Undefined),
      TgResponse(200, "OK", "object", Undefined, Undefined),
      TgResponse(200, "OK", "invalid", Undefined, Undefined),
      TgResponse(200, "OK", "null", Undefined, Undefined),
      TgResponse(400, "Bad Request", "object", False, Text("Bad Request: chat not found")),
      TgResponse(403, "Forbidden", "object", False, Str(<<>>)),
      TgResponse(500, "Internal Server Error", "invalid", Undefined, Undefined),
      TgResponse(502, "Bad Gateway", "object", True, Undefined),
      TgResponse(502, "Bad Gateway", "null", Undefined, Undefined),
      [NoResp EXCEPT !.kind = "reject"] }

\* transporter.sendMail resolves, or rejects with the transport's error
MailResults ==
    { Returned([ok |-> Undefined, description |-> Undefined]),
      Threw(Msg("connect ECONNREFUSED", 0, "")),
      Threw(Msg("Invalid login", 0, "")) }

\* SMTP_HOST, SMTP_PORT, SMTP_USER, SMTP_PASS, SMTP_FROM
SmtpEnv(host, port, user, pass, from) ==
    [EmptyEnv EXCEPT !.SMTP_HOST = host, !.SMTP_PORT = port, !.SMTP_USER = user,
                     !.SMTP_PASS = pass, !.SMTP_FROM = from]

SmtpEnvs ==
    { SmtpEnv(Text("smtp.host"), Undefined, Text("user"), Text("pass"), Undefined),
      SmtpEnv(Text("smtp.host"), Str(<<"4", "6", "5">>), Text("user"), Text("pass"), Text("from")),
      SmtpEnv(Undefined, Undefined, Text("user"), Text("pass"), Undefined),
      SmtpEnv(Text("smtp.host"), Undefined, Undefined, Text("pass"), Text("from")),
      SmtpEnv(Text("smtp.host"), Undefined, Text("user"), Str(<<>>), Undefined),
      SmtpEnv(Undefined, Undefined, Undefined, Undefined, Undefined) }

\* TELEGRAM_PROPERTY_CHAT_MAP of the deployments: unset, "B21:555,ALL:7",
\* "B21:0" and the "B2:555" of the end-to-end scenario
PostChatMaps ==
    { Undefined,
      Str(<<"B", "2", "1", ":", "5", "5", "5", ",", "A", "L", "L", ":", "7">>),
      Str(<<"B", "2", "1", ":", "0">>),
      Str(<<"B", "2", ":", "5", "5", "5">>) }

PostEnvs ==
    { [s EXCEPT !.TELEGRAM_PROPERTY_CHAT_MAP      = m,
                !.TELEGRAM_DEFAULT_BOT_TOKEN      = DEFAULT_TOKEN,
                !.TELEGRAM_DEFAULT_CHAT_ID        = Str(<<"9", "9", "9">>),
                !.TELEGRAM_CONSOLIDATED_BOT_TOKEN = CONSOLIDATED_TOKEN,
                !.TELEGRAM_CONSOLIDATED_CHAT_ID   = Str(<<"-", "4", "2">>)]
      : s \in SmtpEnvs, m \in PostChatMaps }

-----------------------------------------------------------------------------
(* booking route: POST *)

\* the process is up: lib/telegram has been loaded, no request is in hand
Init ==
    /\ env \in PostEnvs
    /\ CHAT_MAP = parseChatMap(env)
    /\ stage = "loaded"
    /\ lastCode = <<>>
    /\ route = NoRoute
    /\ RequestIdle

\* a request arrives and POST awaits req.json()
Request ==
    /\ pc = "idle"
    /\ \E b \in Bodies : body' = b
    /\ pc' = "json"
    /\ UNCHANGED <<calls, tgResp, tgResult, mailResult, responses, logged>>
    /\ UNCHANGED <<lastCode, route>>
    /\ UNCHANGED cfgVars

\* the catch block: console.error(e), then the failure response
Catch(e) ==
    /\ logged' = Append(logged, e)
    /\ responses' = Append(responses, FailureResponse(e))
    /\ pc' = "done"

\* req.json() settles; POST validates, resolves the route, builds the message and
\* calls sendTelegramMessage, which issues the fetch and suspends
POST_Validate ==
    /\ pc = "json"
    /\ IF body.kind = "invalid_json"
       THEN /\ Catch(Msg("Unexpected token in JSON", 0, ""))
            /\ UNCHANGED <<lastCode, route, calls>>
       ELSE IF ~BookingSchemaOk(body)
       THEN /\ Catch(Msg("ZodError", 0, ""))
            /\ UNCHANGED <<lastCode, route, calls>>
       ELSE LET data == BookingSchemaData(body)
                r    == resolveTelegramRoute(data.propertyCode.s, CHAT_MAP, env)
                msg  == MessageLines(data)
            IN  /\ lastCode' = data.propertyCode.s
                /\ route' = r
                /\ calls' = Append(calls, telegramSendTextFetch(sendTelegramMessage(r, msg)))
                /\ pc' = "fetch"
                /\ UNCHANGED <<responses, logged>>
    /\ UNCHANGED <<body, tgResp, tgResult, mailResult>>
    /\ UNCHANGED cfgVars

\* the fetch settles and telegramSendText ends; if it returned, POST calls
\* sendGuestEmail, which builds the transport and hands the mail to it
POST_AfterTelegram ==
    /\ pc = "fetch"
    /\ \E r \in TgResponses :
          LET res == telegramSendTextSettle(r)
              t   == createTransport(env)
              data == BookingSchemaData(body)
          IN  /\ tgResp' = r
              /\ tgResult' = res
              /\ IF res.outcome = "threw"
                 THEN Catch(res.error) /\ UNCHANGED calls
                 ELSE IF t.threw
                 THEN Catch(t.error) /\ UNCHANGED calls
                 ELSE /\ calls' = Append(calls, sendGuestEmailMail([to |-> data.email], env))
                      /\ pc' = "mail"
                      /\ UNCHANGED <<responses, logged>>
    /\ UNCHANGED <<body, mailResult, lastCode, route>>
    /\ UNCHANGED cfgVars

\* sendMail settles: POST answers {ok: true}, or catches the transport's error
POST_AfterMail ==
    /\ pc = "mail"
    /\ \E m \in MailResults :
          /\ mailResult' = m
          /\ IF m.outcome = "threw"
             THEN Catch(m.error)
             ELSE /\ responses' = Append(responses, SuccessResponse)
                  /\ pc' = "done"
                  /\ UNCHANGED logged
    /\ UNCHANGED <<body, calls, tgResp, tgResult, lastCode, route>>
    /\ UNCHANGED cfgVars

\* the response has gone out; nothing of the request is kept
Finish ==
    /\ pc = "done"
    /\ pc' = "idle"
    /\ body' = NoBody
    /\ calls' = <<>>
    /\ tgResp' = NoResp
    /\ tgResult' = NoResult
    /\ mailResult' = NoResult
    /\ responses' = <<>>
    /\ logged' = <<>>
    /\ lastCode' = <<>>
    /\ route' = NoRoute
    /\ UNCHANGED cfgVars

Next == Request \/ POST_Validate \/ POST_AfterTelegram \/ POST_AfterMail \/ Finish

Spec == Init /\ [][Next]_vars

-----------------------------------------------------------------------------
(* lib/telegram: telegramSendText called on its own *)

\* the arguments {botToken, chatId, text} a caller may pass
SendTextArgs ==
    { [botToken |-> t, chatId |-> c, text |-> MessageLines(BookingSchemaData(b))]
      : t \in {DEFAULT_TOKEN, CONSOLIDATED_TOKEN, Undefined},
        c \in {Num(555), Num(0), Num(-42), NaN},
        b \in { x \in Bodies : BookingSchemaOk(x) /\ x.f.propertyCode = Str(B21) } }

\* telegramSendText issues its fetch and suspends
telegramSendText_Fetch ==
    /\ pc = "idle"
    /\ \E args \in SendTextArgs : calls' = Append(calls, telegramSendTextFetch(args))
    /\ pc' = "fetch"
    /\ UNCHANGED <<body, tgResp, tgResult, mailResult, responses, logged, lastCode, route>>
    /\ UNCHANGED cfgVars

\* the fetch settles: telegramSendText returns the parsed body or throws
telegramSendText_Settle ==
    /\ pc = "fetch"
    /\ \E r \in TgResponses :
          /\ tgResp' = r
          /\ tgResult' = telegramSendTextSettle(r)
    /\ pc' = "settled"
    /\ UNCHANGED <<body, calls, mailResult, responses, logged, lastCode, route>>
    /\ UNCHANGED cfgVars

\* the caller goes on; the next call starts afresh
telegramSendText_Next ==
    /\ pc = "settled"
    /\ pc' = "idle"
    /\ calls' = <<>>
    /\ tgResp' = NoResp
    /\ tgResult' = NoResult
    /\ UNCHANGED <<body, mailResult, responses, logged, lastCode, route>>
    /\ UNCHANGED cfgVars

NextSend == telegramSendText_Fetch \/ telegramSendText_Settle \/ telegramSendText_Next

SpecSend == Init /\ [][NextSend]_vars

-----------------------------------------------------------------------------
(* Claims about the configuration map and the resolver (SpecConfig) *)

Resolved == stage = "loaded" /\ route # NoRoute

DefaultChatId == JSNumber(Or(env.TELEGRAM_DEFAULT_CHAT_ID, Num(0)))

\* the entries of the configured string, as written between the commas
RawEntries == Split(Or(env.TELEGRAM_PROPERTY_CHAT_MAP, Str(<<>>)).s, ",")

\* an entry that is not empty after trimming and holds a colon
WellFormedEntry(p) == Trim(p) # <<>> /\ Includes(p, ":")

EntryCode(p) == LET t == Trim(p) IN Trim(SubSeq(t, 1, IndexOf(t, ":") - 1))

EntryChat(p) ==
    LET t    == Trim(p)
        rest == SubSeq(t, IndexOf(t, ":") + 1, Len(t))
    IN  IF Includes(rest, ":") THEN SubSeq(rest, 1, IndexOf(rest, ":") - 1) ELSE rest

WellFormedIndexes == { i \in 1..Len(RawEntries) : WellFormedEntry(RawEntries[i]) }

RECURSIVE Keep(_, _)
Keep(parts, ok) ==
    IF parts = <<>> THEN <<>>
    ELSE (IF ok[1] THEN <<parts[1]>> ELSE <<>>) \o Keep(Tail(parts), Tail(ok))

\* the configured string with its malformed entries removed
WellFormedOnly ==
    Join(Keep(RawEntries, [i \in 1..Len(RawEntries) |-> WellFormedEntry(RawEntries[i])]))

C4_Original ==
    (Resolved /\ lastCode \in DOMAIN CHAT_MAP) =>
        /\ route.botToken = env.TELEGRAM_DEFAULT_BOT_TOKEN
        /\ route.chatId = CHAT_MAP[lastCode]

\* C4 amended: for every propertyCode other than "ALL" that is a key of the
\* parsed map and is mapped to a non-zero number, the route is the mapped chat
\* id with the default bot token; a key mapped to 0 or NaN gets the default
\* chat id (with the default bot token), and the key "ALL" gets the
\* consolidated route.
C4_MappedRoute ==
    (Resolved /\ lastCode \in DOMAIN CHAT_MAP) =>
        IF lastCode = ALL
        THEN /\ route.botToken = env.TELEGRAM_CONSOLIDATED_BOT_TOKEN
             /\ route.chatId = JSNumber(env.TELEGRAM_CONSOLIDATED_CHAT_ID)
        ELSE /\ route.botToken = env.TELEGRAM_DEFAULT_BOT_TOKEN
             /\ route.chatId =
                   IF CHAT_MAP[lastCode].t = "number" /\ CHAT_MAP[lastCode].n # 0
                   THEN CHAT_MAP[lastCode]
                   ELSE DefaultChatId

\* C4 witness: a mapped code resolved to its chat id although a different
\* default chat id is configured
C4_Witness ==
    /\ Resolved
    /\ lastCode = B21
    /\ B21 \in DOMAIN CHAT_MAP
    /\ CHAT_MAP[B21] = Num(555)
    /\ DefaultChatId = Num(999)
    /\ route.chatId = Num(555)

\* C5: for every propertyCode other than "ALL", of length >= 3, that is not a
\* key of the parsed map, the route is the default bot token with the numeric
\* TELEGRAM_DEFAULT_CHAT_ID, or 0 when that is unset.
C5_UnmappedRoute ==
    (Resolved /\ lastCode # ALL /\ Len(lastCode) >= 3 /\ lastCode \notin DOMAIN CHAT_MAP) =>
        /\ route.botToken = env.TELEGRAM_DEFAULT_BOT_TOKEN
        /\ route.chatId =
              IF env.TELEGRAM_DEFAULT_CHAT_ID = Undefined
              THEN Num(0)
              ELSE JSNumber(env.TELEGRAM_DEFAULT_CHAT_ID)

\* C6: for propertyCode "ALL" the route is the consolidated bot token with the
\* numeric consolidated chat id, whatever the map holds.
C6_ConsolidatedRoute ==
    (Resolved /\ lastCode = ALL) =>
        /\ route.botToken = env.TELEGRAM_CONSOLIDATED_BOT_TOKEN
        /\ route.chatId = JSNumber(env.TELEGRAM_CONSOLIDATED_CHAT_ID)

\* C6 witness: "ALL" resolved to the consolidated route while the map holds an
\* entry for "ALL"
C6_Witness ==
    /\ Resolved
    /\ lastCode = ALL
    /\ ALL \in DOMAIN CHAT_MAP
    /\ CHAT_MAP[ALL] = Num(7)
    /\ route.botToken = CONSOLIDATED_TOKEN
    /\ route.chatId = Num(-42)

-----------------------------------------------------------------------------
(* Claims about POST and the senders (Spec) *)

Done == pc = "done"

TelegramCalls == SelectSeq(calls, LAMBDA c : c.kind = "telegram")
EmailCalls == SelectSeq(calls, LAMBDA c : c.kind = "email")

\* a required field that is missing or not a string, or a string shorter than
\* its minimum, or an email that is not an email address
BreaksConstraint(b) ==
    /\ b.kind = "object"
    /\ \/ \E f \in Fields \ {"note", "email"} :
             \/ b.f[f].t # "string"
             \/ Len(b.f[f].s) <
                   (CASE f = "propertyCode" -> PropertyCodeMin
                      [] f = "roomId"       -> RoomIdMin
                      [] f = "guestName"    -> GuestNameMin
                      [] f = "phone"        -> PhoneMin
                      [] f = "checkIn"      -> CheckInMin
                      [] f = "checkOut"     -> CheckOutMin)
       \/ ~IsEmail(b.f.email)

\* C1: for a payload that misses a required field or breaks a minimum-length or
\* format constraint, no outbound call is issued at any point of the request,
\* and the request ends with the one response {ok: false, error: <the validation
\* error>} of status 4xx.
C1_InvalidPayload ==
    BreaksConstraint(body) =>
        /\ calls = <<>>
        /\ pc \in {"json", "done"}
        /\ Done => /\ Len(responses) = 1
                   /\ responses[1].ok = FALSE
                   /\ responses[1].status \in 400..499
                   /\ responses[1].error = Msg("ZodError", 0, "")

\* C1 witness: a request whose phone is one character short has been answered
\* with the validation failure and nothing was sent
C1_Witness ==
    /\ Done
    /\ body.kind = "object"
    /\ body.f.phone.t = "string"
    /\ Len(body.f.phone.s) = PhoneMin - 1
    /\ \A f \in Fields \ {"phone"} : body.f[f] = GoodFields[f]
    /\ calls = <<>>
    /\ responses = <<FailureResponse(Msg("ZodError", 0, ""))>>

\* the chat-bot API answered HTTP 2xx with a body whose ok is true
ApiSaidOk ==
    /\ tgResp.kind = "response"
    /\ HttpOk(tgResp)
    /\ tgResp.json = "object"
    /\ tgResp.ok = True

SmtpConfigured ==
    /\ Truthy(env.SMTP_HOST) /\ Truthy(env.SMTP_USER) /\ Truthy(env.SMTP_PASS)

\* every field but propertyCode satisfies the schema and propertyCode is a string
WellFormedButCode(b) ==
    /\ b.kind = "object"
    /\ b.f.propertyCode.t = "string"
    /\ BookingSchemaOk([b EXCEPT !.f.propertyCode = Str(B21)])

\* the two sends of a successful request, in order
ChatThenEmail(chatId) ==
    calls = << TelegramCall(env.TELEGRAM_DEFAULT_BOT_TOKEN, chatId,
                            MessageLines(BookingSchemaData(body))),
               EmailCall(Or(env.SMTP_FROM, env.SMTP_USER), body.f.email) >>

\* C2 as stated: for a well-formed payload whose propertyCode is a key of the
\* configured map (such as B2 -> 555), with nothing failing at the chat-bot API
\* or at SMTP, POST sends one chat message to the mapped chat id with the default
\* bot token, then one email to the payload's address, and answers {ok: true}.
C2_Original ==
    ( /\ Done
      /\ WellFormedButCode(body)
      /\ body.f.propertyCode.s \in DOMAIN CHAT_MAP
      /\ SmtpConfigured
      /\ tgResp.kind = "none" \/ ApiSaidOk
      /\ mailResult.outcome # "threw" )
    => /\ responses = <<SuccessResponse>>
       /\ ChatThenEmail(CHAT_MAP[body.f.propertyCode.s])

\* C2 amended: for a payload that satisfies the schema (so a propertyCode of at
\* least 3 characters) whose propertyCode is not "ALL" and is mapped to a
\* non-zero number, with the chat-bot API answering success and SMTP configured
\* and accepting, POST sends exactly one chat message to the mapped chat id with
\* the default bot token, then exactly one email to the payload's address, and
\* answers {ok: true}.
C2_EndToEnd ==
    ( /\ Done
      /\ BookingSchemaOk(body)
      /\ body.f.propertyCode.s # ALL
      /\ body.f.propertyCode.s \in DOMAIN CHAT_MAP
      /\ CHAT_MAP[body.f.propertyCode.s].t = "number"
      /\ CHAT_MAP[body.f.propertyCode.s].n # 0
      /\ ApiSaidOk
      /\ SmtpConfigured
      /\ mailResult.outcome = "returned" )
    => /\ responses = <<SuccessResponse>>
       /\ ChatThenEmail(CHAT_MAP[body.f.propertyCode.s])

\* C2 witness: B21 -> 555, one chat send to 555, one email, {ok: true}
C2_Witness ==
    /\ Done
    /\ body.f.propertyCode = Str(B21)
    /\ B21 \in DOMAIN CHAT_MAP
    /\ CHAT_MAP[B21] = Num(555)
    /\ Len(calls) = 2
    /\ calls[1].kind = "telegram" /\ calls[1].chatId = Num(555)
    /\ calls[1].botToken = DEFAULT_TOKEN
    /\ calls[2].kind = "email" /\ calls[2].to = body.f.email
    /\ responses = <<SuccessResponse>>

\* the chat-bot API answered, and not with HTTP 2xx and a body whose ok is true
ApiSaidFailed == tgResp.kind = "response" /\ ~ApiSaidOk

\* "Telegram failed: <status> <description>", the description being the one the
\* provider supplied or, when there is none, the HTTP status text
TelegramFailedMessage ==
    Msg("Telegram failed", tgResp.status,
        IF tgResp.json = "object" /\ Truthy(tgResp.description)
        THEN tgResp.description.s[1]
        ELSE tgResp.statusText)

\* C3: no email is attempted before the chat send has succeeded, and whenever
\* the chat-bot API answers with a failure POST attempts no email and answers
\* {ok: false, error: "Telegram failed: <status> <description>"}.
C3_ChatFailureStopsEmail ==
    /\ (EmailCalls # <<>> => tgResult.outcome = "returned")
    /\ (ApiSaidFailed =>
          /\ EmailCalls = <<>>
          /\ Done
          /\ responses = <<FailureResponse(TelegramFailedMessage)>>)

\* C8: once the API has answered, telegramSendText throws if and only if the
\* HTTP response is not successful or the parsed body's ok is not literally
\* true; what it throws is "Telegram failed: <status> <description or status
\* text>"; otherwise it returns the parsed body.
C8_TelegramSendText ==
    (tgResp.kind = "response") =>
        /\ (tgResult.outcome = "threw") <=> ApiSaidFailed
        /\ ApiSaidFailed => tgResult.error = TelegramFailedMessage
        /\ ApiSaidOk => tgResult = Returned(ParsedBody(tgResp))

\* C9: a request gets exactly one response, when POST ends; it is {ok: true} if
\* and only if validation passed, the chat send returned and the email send
\* returned; otherwise it is {ok: false, error: <the error caught>} of status
\* 4xx, logged once; and neither channel is called twice.
C9_OneResponse ==
    /\ Len(responses) = (IF Done THEN 1 ELSE 0)
    /\ Len(TelegramCalls) <= 1
    /\ Len(EmailCalls) <= 1
    /\ Done =>
          LET r == responses[1]
              success == /\ BookingSchemaOk(body)
                         /\ tgResult.outcome = "returned"
                         /\ mailResult.outcome = "returned"
          IN  /\ (r.ok = TRUE) <=> success
              /\ success => r = SuccessResponse /\ logged = <<>>
              /\ ~success =>
                    /\ r.ok = FALSE
                    /\ r.status \in 400..499
                    /\ r.error # NoError
                    /\ logged = <<r.error>>

\* C9 witness: a request answered {ok: true} after one chat send and one email,
\* nothing logged
C9_Witness ==
    /\ Done
    /\ responses = <<SuccessResponse>>
    /\ Len(TelegramCalls) = 1
    /\ Len(EmailCalls) = 1
    /\ tgResult.outcome = "returned"
    /\ mailResult.outcome = "returned"
    /\ logged = <<>>

SmtpMissing ==
    \/ env.SMTP_HOST = Undefined \/ env.SMTP_USER = Undefined \/ env.SMTP_PASS = Undefined

\* C10: the process serves requests with SMTP_HOST, SMTP_USER or SMTP_PASS
\* unset, and "SMTP env missing" is raised only when an email is to be sent:
\* a valid request whose chat send returned ends with the chat message sent, no
\* email handed to a transport, and the response {ok: false, error: "SMTP env
\* missing"} of status 4xx; no other request gets that error.
C10_SmtpCheckedAtSend ==
    /\ (SmtpMissing /\ tgResult.outcome = "returned") =>
          /\ Done
          /\ Len(calls) = 1
          /\ calls[1].kind = "telegram"
          /\ mailResult = NoResult
          /\ Len(responses) = 1
          /\ responses[1].ok = FALSE
          /\ responses[1].status \in 400..499
          /\ responses[1].error = Msg("SMTP env missing", 0, "")
    /\ SmtpMissing => EmailCalls = <<>>
    /\ \A i \in 1..Len(responses) :
          responses[i].error = Msg("SMTP env missing", 0, "")
              => tgResult.outcome = "returned" /\ ~SmtpConfigured

\* C10 witness: SMTP_USER alone is unset, the chat message went out, and the
\* request was answered with "SMTP env missing"
C10_Witness ==
    /\ Done
    /\ env.SMTP_USER = Undefined
    /\ Truthy(env.SMTP_HOST) /\ Truthy(env.SMTP_PASS)
    /\ tgResult.outcome = "returned"
    /\ Len(calls) = 1
    /\ calls[1].kind = "telegram"
    /\ responses = <<FailureResponse(Msg("SMTP env missing", 0, ""))>>

====
